---- MODULE Spec2Model ----
(***************************************************************************)
(* SmartBusOptimizer: the in-memory store (MemStorage), the POST           *)
(* /api/bookings handler that writes to it, the WebSocket client set and   *)
(* broadcast, the GPS tick, and the seat-selection dialog's payment flow.  *)
(*                                                                         *)
(* Identifiers are produced by randomUUID() in the source; here a fresh id *)
(* is the next unused natural number.  Decimal strings ("24.99") are       *)
(* amounts in cents (2499).  An absent optional field is the string        *)
(* "none".                                                                 *)
(***************************************************************************)
EXTENDS Integers, Sequences, FiniteSets, TLC

\* ---------------------------------------------------------------- bounds
\* number of POST /api/bookings requests that may be in flight / served
MaxRequests == 2
\* longest seatNumbers array a request carries
MaxSeatsPerRequest == 2
\* schedules added with createSchedule on top of the two seeded ones
MaxCreatedSchedules == 1
\* largest availableSeats given to a created schedule
MaxCreatedSeats == 2
\* WebSocket connections the server accepts
MaxClients == 2
\* clicks on "Proceed to Payment" in the seat-selection dialog
MaxAttempts == 2
\* WebSockets the client hook creates
MaxSockets == 6
\* calls of the hook's connect() from outside the hook's timer
MaxConnectCalls == 2
\* buses created after the seeded two
MaxCreatedBuses == 1
\* POST /api/auth/register requests handled
MaxRegistrations == 3
\* storage.updateBookingStatus calls made
MaxStatusCalls == 2
\* GPS ticks that run when only the occupancy is drawn
MaxOccupancyTicks == 7
\* GPS ticks that run when position and occupancy are drawn
MaxTicks == 2

\* ------------------------------------------------- seed data (initializeData)
Bus1Capacity == 45
Bus2Capacity == 38
Schedule1Seats == 23
Schedule2Seats == 18
\* "24.99" and "18.99", in cents
Schedule1Price == 2499
Schedule2Price == 1899
\* latitude "40.7589", longitude "-73.9851", in units of 0.0001 degree
Location1Latitude == 407589
Location1Longitude == -739851
Location1Occupancy == 31
Location1Delay == 0
\* latitude "40.7282", longitude "-74.0776"
Location2Latitude == 407282
Location2Longitude == -740776
Location2Occupancy == 25
Location2Delay == 5

\* ------------------------------------------- useWebSocket option defaults
maxReconnectAttempts == 5

VARIABLES
    buses,        \* MemStorage.buses: bus id -> Bus
    schedules,    \* MemStorage.schedules: schedule id -> Schedule
    bookings,     \* MemStorage.bookings: booking id -> Booking (id = index)
    req,          \* the POST /api/bookings handlers: position, body, response
    broadcasts,   \* the events handed to broadcast(), in order
    initialSeats, \* history: availableSeats each schedule was created with
    clients,      \* routes.ts `clients`: the Set of registered sockets
    readyState,   \* ws.readyState of every socket
    inbox,        \* the messages client.send() was called with, per socket
    socketEvents, \* history: the close and error events handled, per socket
    joinedAt,     \* history: number of events broadcast before the socket
                  \* connected
    audience,     \* history: per broadcast event, the sockets that were
                  \* registered and open when broadcast() was called
    busLocations, \* MemStorage.busLocations: bus id -> BusLocation
    tick,         \* the setInterval GPS callback: position, pending updates
    lastTick,     \* history: how the latest tick ended, and what the store
                  \* held at that moment
    attempt,      \* the seat-selection dialog: payment and booking mutation
    cancelLog,    \* history: the updateBookingStatus calls made
    joined,       \* history: the latest call of a join accessor, its result
    users,        \* MemStorage.users, in insertion order
    reg,          \* the POST /api/auth/register handlers
    hook,         \* useWebSocket: connectionStatus and the three refs
    ws,           \* readyState of every WebSocket the hook has created
    timers        \* the reconnect timers that are pending

storeVars == <<buses, schedules, bookings, initialSeats>>
hubVars == <<clients, readyState, inbox, joinedAt, audience, socketEvents>>
tickVars == <<busLocations, tick, lastTick>>
authVars == <<users, reg>>
hookVars == <<hook, ws, timers>>
sideVars == <<joined, authVars, hookVars>>
flowVars == <<attempt, cancelLog, sideVars>>

vars == <<buses, schedules, bookings, req, broadcasts, initialSeats,
          hubVars, tickVars, flowVars>>

\* ---------------------------------------------------------------- inputs
\* the requests, numbered in the order the server receives them
Requests == 1..MaxRequests

\* the sockets, numbered in the order they connect
Sockets == 1..MaxClients

\* the registration requests
Registrations == 1..MaxRegistrations

\* the email addresses registered with; "none" is a body without email
EmailInputs == {"none", "a@example.com", "b@example.com"}

\* the booking attempts made in the dialog
Attempts == 1..MaxAttempts

\* a schedule id no schedule ever gets (ids are random UUIDs)
UnknownScheduleId == 0

\* a bus id that names no bus
UnknownBusId == 3

\* seat labels as the client's seat map writes them (`${row}A`, `${row}B`)
SeatLabels == {"1A", "1B"}

Range(f) == {f[x] : x \in DOMAIN f}

\* the seatNumbers arrays a request may carry: the seats toggled on in the
\* seat map, in the order they were selected (no label twice), none included
SeatLists ==
    {l \in UNION {[1..n -> SeatLabels] : n \in 0..MaxSeatsPerRequest} :
        Cardinality(Range(l)) = Len(l)}

\* the totalAmount a request may carry (cents)
Amounts == {0, Schedule1Price}

\* the status a request may carry ("none": the field is absent)
BookingStatusInputs == {"none", "confirmed", "cancelled"}

\* passengerDetails of a request ("none": the required field is missing)
PassengerDetailsInputs == {"none", "details"}

\* the schedule ids requests name: the first seeded schedule, the created
\* ones, and an id of no schedule
ScheduleIdInputs(scheds) ==
    {UnknownScheduleId, 1} \cup {id \in DOMAIN scheds : id > 2}

\* the bus, price ("10.00") and status given to a created schedule
NewScheduleBuses == {2}
NewSchedulePrices == {1000}
NewScheduleStatuses == {"none", "cancelled", "completed"}

\* what a handler saw of the schedule (history, for stating the claims)
NoSchedule ==
    [exists |-> FALSE, availableSeats |-> 0, status |-> "none", price |-> 0]

Snapshot(scheds, id) ==
    IF id \in DOMAIN scheds
    THEN [exists |-> TRUE, availableSeats |-> scheds[id].availableSeats,
          status |-> scheds[id].status, price |-> scheds[id].price]
    ELSE NoSchedule

\* ----------------------------------------------------------------- helpers
RECURSIVE SumSeats(_)
\* the number of seat labels held by the bookings of the sequence bs
SumSeats(bs) ==
    IF bs = <<>> THEN 0
    ELSE Len(Head(bs).seatNumbers) + SumSeats(Tail(bs))

\* the bookings made against schedule id, in booking order
BookingsOf(bs, id) == SelectSeq(bs, LAMBDA b : b.scheduleId = id)

\* the bookings against schedule id whose status is confirmed
ConfirmedBookingsOf(bs, id) ==
    SelectSeq(bs, LAMBDA b : b.scheduleId = id /\ b.status = "confirmed")

\* ------------------------------------------------------------------- Init
\* MemStorage constructor -> initializeData(): two buses, two schedules, no
\* bookings.
Init ==
    /\ buses = (1 :> [capacity |-> Bus1Capacity] @@ 2 :> [capacity |-> Bus2Capacity])
    /\ schedules =
         (1 :> [busId |-> 1, price |-> Schedule1Price,
                availableSeats |-> Schedule1Seats, status |-> "scheduled"]
          @@
          2 :> [busId |-> 2, price |-> Schedule2Price,
                availableSeats |-> Schedule2Seats, status |-> "scheduled"])
    /\ bookings = <<>>
    /\ req = [r \in Requests |->
                [pc |-> "idle", scheduleId |-> UnknownScheduleId,
                 seatNumbers |-> <<>>, parsed |-> FALSE,
                 response |-> "none", bookingId |-> 0,
                 before |-> NoSchedule, after |-> NoSchedule]]
    /\ broadcasts = <<>>
    /\ initialSeats = (1 :> Schedule1Seats @@ 2 :> Schedule2Seats)
    /\ clients = {}
    /\ readyState = [c \in Sockets |-> "NONE"]
    /\ inbox = [c \in Sockets |-> <<>>]
    /\ joinedAt = [c \in Sockets |-> 0]
    /\ socketEvents = [c \in Sockets |-> <<>>]
    /\ audience = <<>>
    /\ busLocations =
         (1 :> [id |-> 1, scheduleId |-> 1, latitude |-> Location1Latitude,
                longitude |-> Location1Longitude,
                currentStop |-> "Central Plaza",
                occupancy |-> Location1Occupancy, delay |-> Location1Delay,
                updatedAt |-> 0]
          @@
          2 :> [id |-> 2, scheduleId |-> 2, latitude |-> Location2Latitude,
                longitude |-> Location2Longitude,
                currentStop |-> "Business District",
                occupancy |-> Location2Occupancy, delay |-> Location2Delay,
                updatedAt |-> 0])
    /\ tick = [pc |-> "idle", snapshot |-> <<>>, updates |-> <<>>,
               next |-> 0, count |-> 0]
    /\ lastTick = [tick |-> 0, updates |-> <<>>, stored |-> <<>>,
                   failed |-> 0, emitted |-> FALSE]
    /\ attempt = [a \in Attempts |->
                    [pc |-> "idle", selectedSeats |-> <<>>,
                     passengerDetails |-> "none", isSuccess |-> FALSE,
                     status |-> 0, request |-> 0]]
    /\ cancelLog = <<>>
    /\ hook = [connectionStatus |-> "disconnected", wsRef |-> 0,
               reconnectTimeoutRef |-> 0, reconnectAttempts |-> 0,
               connectCalls |-> 0, timersSet |-> 0, sinceOpen |-> 0,
               disconnected |-> FALSE]
    /\ ws = <<>>
    /\ timers = {}
    /\ users = <<>>
    /\ reg = [g \in Registrations |->
                [pc |-> "idle", email |-> "none", existingUser |-> FALSE,
                 response |-> "none"]]
    /\ joined = [call |-> "none", id |-> 0,
                 result |-> [kind |-> "none", bus |-> "none"]]

\* ------------------------------------------------ shared/schema (validation)
\* insertBookingSchema.parse: the required columns must be present.  The
\* seat_numbers column is jsonb, so any JSON array passes, the empty one
\* included; scheduleId is any string; status is optional.
insertBookingSchemaParse(body) ==
    body.passengerDetails # "none"

\* ------------------------------------------------------------- MemStorage
\* createBooking, the record it stores: the request's fields, with
\* status: insertBooking.status || "confirmed"
NewBooking(insertBooking) ==
    [userId |-> "demo-user-1",
     scheduleId |-> insertBooking.scheduleId,
     seatNumbers |-> insertBooking.seatNumbers,
     totalAmount |-> insertBooking.totalAmount,
     status |-> IF insertBooking.status = "none" THEN "confirmed"
                ELSE insertBooking.status]

\* a createBooking that takes one seat per booking, whatever its seat count
DecrementSeatsOncePerBooking(schedule, n) ==
    [schedule EXCEPT !.availableSeats = @ - 1]

\* createBooking: schedule.availableSeats -= insertBooking.seatNumbers.length
DecrementSeats(schedule, n) ==
    [schedule EXCEPT !.availableSeats = @ - n]

\* createBooking, its effect on this.bookings
createBookingBookings(bs, insertBooking) ==
    Append(bs, NewBooking(insertBooking))

\* a createBooking that leaves the decrement to a later step
createBookingSchedulesLater(scheds, insertBooking) == scheds

\* createBooking, its effect on this.schedules: if (schedule) { ... }
createBookingSchedules(scheds, insertBooking) ==
    IF insertBooking.scheduleId \in DOMAIN scheds
    THEN [scheds EXCEPT ![insertBooking.scheduleId] =
             DecrementSeats(@, Len(insertBooking.seatNumbers))]
    ELSE scheds

\* getSchedule(id): the schedule's record, or undefined
getSchedule(scheds, id) == Snapshot(scheds, id)

\* updateSchedule: { ...schedule, ...updates } under the id, every field of
\* `updates` replacing the stored one; the map as it is for an unknown id
updateSchedule(scheds, id, updates) ==
    IF id \notin DOMAIN scheds THEN scheds
    ELSE LET schedule == scheds[id] IN
         [scheds EXCEPT ![id] =
            [f \in DOMAIN schedule \cup DOMAIN updates |->
                IF f \in DOMAIN updates THEN updates[f] ELSE schedule[f]]]

\* the Partial<InsertSchedule> values the model passes to updateSchedule
ScheduleUpdates == {[status |-> "cancelled"], [availableSeats |-> 0]}

\* getSchedule, the join it returns: undefined for an unknown id, else the
\* schedule with bus: this.buses.get(schedule.busId), which is undefined
\* when the bus is missing (the `!` is erased at compile time)
getScheduleWithDetails(scheds, bs, id) ==
    IF id \notin DOMAIN scheds THEN [kind |-> "undefined", bus |-> "none"]
    ELSE [kind |-> "schedule",
          bus |-> IF scheds[id].busId \in DOMAIN bs THEN "bus"
                  ELSE "undefined"]

\* getBooking: undefined for an unknown id and for a booking whose
\* getSchedule is undefined, else the booking with its schedule
getBooking(bks, scheds, bs, id) ==
    IF id \notin DOMAIN bks THEN [kind |-> "undefined", bus |-> "none"]
    ELSE LET schedule == getScheduleWithDetails(scheds, bs, bks[id].scheduleId)
         IN IF schedule.kind = "undefined"
            THEN [kind |-> "undefined", bus |-> "none"]
            ELSE [kind |-> "booking", bus |-> schedule.bus]

\* an updateBookingStatus that puts a booking which already has the status
\* back to confirmed
updateBookingStatusFlipsBack(bs, id, status) ==
    IF id \notin DOMAIN bs THEN bs
    ELSE IF bs[id].status = status THEN [bs EXCEPT ![id].status = "confirmed"]
    ELSE [bs EXCEPT ![id].status = status]

\* updateBookingStatus, the bookings map: { ...booking, status } under the
\* id, or the map as it is when the id is unknown.  No other map is touched.
updateBookingStatus(bs, id, status) ==
    IF id \notin DOMAIN bs THEN bs
    ELSE [bs EXCEPT ![id].status = status]

\* updateBookingStatus, the value returned
updateBookingStatusReturns(bs, id, status) ==
    IF id \notin DOMAIN bs THEN "undefined" ELSE "booking"

\* everything MemStorage holds
Store(bs, scheds) ==
    [bookings |-> bs, schedules |-> scheds, buses |-> buses,
     busLocations |-> busLocations]

\* a broadcast called twice for one event
broadcastTwice(log, data) == Append(Append(log, data), data)

\* broadcast(data): the event goes to the connected clients
broadcast(log, data) == Append(log, data)

\* a broadcast that sends the message twice to every open client
broadcastSendTwice(inb, cls, rs, msg) ==
    [c \in DOMAIN inb |->
        IF c \in cls /\ rs[c] = "OPEN" THEN inb[c] \o <<msg, msg>> ELSE inb[c]]

\* broadcast(data), its sends: clients.forEach(client => { if
\* (client.readyState === WebSocket.OPEN) client.send(message) })
broadcastSend(inb, cls, rs, msg) ==
    [c \in DOMAIN inb |->
        IF c \in cls /\ rs[c] = "OPEN" THEN Append(inb[c], msg) ELSE inb[c]]

\* broadcast(data) when client.send throws for socket t: forEach visits the
\* Set in insertion order, so the clients added before t were sent to, and
\* the exception leaves forEach before t's successors are visited
broadcastSendThrows(inb, cls, rs, msg, t) ==
    [c \in DOMAIN inb |->
        IF c \in cls /\ rs[c] = "OPEN" /\ c < t
        THEN Append(inb[c], msg) ELSE inb[c]]

\* the sockets a broadcast reaches: registered, and open
OpenClients(cls, rs) == {c \in cls : rs[c] = "OPEN"}

\* a delete that puts back a socket which is not in the set
clientsDeleteOrAdd(cls, c) == IF c \in cls THEN cls \ {c} ELSE cls \cup {c}

\* clients.delete(ws): Set.prototype.delete, which does nothing (and
\* returns false) for a value that is not in the set
clientsDelete(cls, c) == cls \ {c}

\* ------------------------------------------------------------ the GPS tick
Max(a, b) == IF a >= b THEN a ELSE b
Min(a, b) == IF a <= b THEN a ELSE b

\* an occupancy that is moved by the delta and not clamped
newOccupancyUnclamped(capacity, occupancy, delta) == occupancy + delta

\* Math.max(0, Math.min(bus.capacity, bus.location.occupancy + delta))
newOccupancy(capacity, occupancy, delta) ==
    Max(0, Min(capacity, occupancy + delta))

\* Math.floor(Math.random() * 10 - 5): an integer of -5..4
OccupancyDeltaRange == -5..4

\* the draws the model takes: the two extremes, and no change
OccupancyDeltas == {-5, 0, 4}

\* the two extremes alone
OccupancyExtremes == {-5, 4}

\* (Math.random() - 0.5) * 0.001 lies in [-0.0005, 0.0005); in units of
\* 0.0001 degree the model draws -5 or 4
PositionDeltas == {-5, 4}

\* storage.getBusesWithLocations(): every bus, in Map order, with the
\* location stored under its id (undefined if there is none)
RECURSIVE getBusesWithLocations(_, _, _)
getBusesWithLocations(bs, locs, from) ==
    IF from \notin DOMAIN bs THEN <<>>
    ELSE <<[busId |-> from, capacity |-> bs[from].capacity,
            hasLocation |-> from \in DOMAIN locs,
            location |-> IF from \in DOMAIN locs THEN locs[from]
                         ELSE [occupancy |-> 0]]>>
         \o getBusesWithLocations(bs, locs, from + 1)

\* the tick's buses.map(...).filter(Boolean): one update per bus that has a
\* location; draws[b] holds the random numbers drawn for bus b.  The
\* parseFloat / toString pair around the sum is exact at this resolution.
RECURSIVE Updates(_, _)
Updates(snapshot, draws) ==
    IF snapshot = <<>> THEN <<>>
    ELSE LET bus == Head(snapshot) IN
         (IF bus.hasLocation
          THEN <<[busId |-> bus.busId,
                  latitude |-> bus.location.latitude + draws[bus.busId].lat,
                  longitude |-> bus.location.longitude + draws[bus.busId].lng,
                  occupancy |-> newOccupancy(bus.capacity,
                                    bus.location.occupancy,
                                    draws[bus.busId].occ),
                  currentStop |-> bus.location.currentStop,
                  delay |-> bus.location.delay]>>
          ELSE <<>>)
         \o Updates(Tail(snapshot), draws)

\* an updateBusLocation that stores a delay of 0
updateBusLocationResetsDelay(locs, insertLocation, now) ==
    IF insertLocation.busId \in DOMAIN locs
    THEN [locs EXCEPT ![insertLocation.busId].delay = 0,
                      ![insertLocation.busId].updatedAt = now]
    ELSE locs

\* an updateBusLocation that spreads the stored record over the new one
updateBusLocationKeepsStored(locs, insertLocation, now) ==
    IF insertLocation.busId \in DOMAIN locs
    THEN [locs EXCEPT ![insertLocation.busId].updatedAt = now]
    ELSE locs

\* storage.updateBusLocation(insertLocation): { ...existingLocation,
\* ...insertLocation, updatedAt: new Date() }, or a new record under a
\* fresh id when the bus has none
updateBusLocation(locs, insertLocation, now) ==
    IF insertLocation.busId \in DOMAIN locs
    THEN [locs EXCEPT ![insertLocation.busId] =
            [id |-> @.id, scheduleId |-> @.scheduleId,
             latitude |-> insertLocation.latitude,
             longitude |-> insertLocation.longitude,
             currentStop |-> insertLocation.currentStop,
             occupancy |-> insertLocation.occupancy,
             delay |-> insertLocation.delay,
             updatedAt |-> now]]
    ELSE locs @@ (insertLocation.busId :>
            [id |-> Cardinality(DOMAIN locs) + 1, scheduleId |-> 0,
             latitude |-> insertLocation.latitude,
             longitude |-> insertLocation.longitude,
             currentStop |-> insertLocation.currentStop,
             occupancy |-> insertLocation.occupancy,
             delay |-> insertLocation.delay,
             updatedAt |-> now])

\* ---------------------------------------------------------------- actions
\* POST /api/bookings up to its await: parse the body and call
\* storage.createBooking, whose body runs to completion without suspending.
\* A parse error is caught and answered with 400.  Request r is the r-th
\* request the server receives, so it starts after request r-1 has started.
PostBookings(r, body) ==
    /\ req[r].pc = "idle"
    /\ r > 1 => req[r - 1].pc # "idle"
    /\ IF insertBookingSchemaParse(body)
       THEN /\ bookings' = createBookingBookings(bookings, body)
            /\ schedules' = createBookingSchedules(schedules, body)
            /\ req' = [req EXCEPT ![r] =
                 [pc |-> "awaiting", scheduleId |-> body.scheduleId,
                  seatNumbers |-> body.seatNumbers, parsed |-> TRUE,
                  response |-> "none",
                  bookingId |-> Len(bookings) + 1,
                  before |-> Snapshot(schedules, body.scheduleId),
                  after |-> Snapshot(schedules', body.scheduleId)]]
       ELSE /\ req' = [req EXCEPT ![r] =
                 [pc |-> "done", scheduleId |-> body.scheduleId,
                  seatNumbers |-> body.seatNumbers, parsed |-> FALSE,
                  response |-> "Failed to create booking",
                  bookingId |-> 0,
                  before |-> Snapshot(schedules, body.scheduleId),
                  after |-> Snapshot(schedules, body.scheduleId)]]
            /\ UNCHANGED <<bookings, schedules>>
    /\ UNCHANGED <<buses, broadcasts, initialSeats, hubVars, tickVars, flowVars>>

\* POST /api/bookings after its await: broadcast booking_created, res.json.
\* A message is named by the position of its event in `broadcasts`.
PostBookingsRespond(r) ==
    /\ req[r].pc = "awaiting"
    /\ broadcasts' = broadcast(broadcasts,
          [type |-> "booking_created", bookingId |-> req[r].bookingId,
           scheduleId |-> bookings[req[r].bookingId].scheduleId])
    /\ inbox' = broadcastSend(inbox, clients, readyState, Len(broadcasts'))
    /\ audience' = Append(audience, OpenClients(clients, readyState))
    /\ req' = [req EXCEPT ![r].pc = "done", ![r].response = "ok"]
    /\ UNCHANGED <<buses, schedules, bookings, initialSeats>>
    /\ UNCHANGED <<clients, readyState, joinedAt, socketEvents, tickVars,
                   flowVars>>

\* POST /api/bookings after its await, when client.send throws for socket t
\* inside broadcast: nothing in broadcast catches, the handler's catch
\* answers 400; the booking stays stored and t stays registered.
PostBookingsRespondSendThrows(r, t) ==
    /\ req[r].pc = "awaiting"
    /\ t \in OpenClients(clients, readyState)
    /\ broadcasts' = broadcast(broadcasts,
          [type |-> "booking_created", bookingId |-> req[r].bookingId,
           scheduleId |-> bookings[req[r].bookingId].scheduleId])
    /\ inbox' = broadcastSendThrows(inbox, clients, readyState,
                                    Len(broadcasts'), t)
    /\ audience' = Append(audience, OpenClients(clients, readyState))
    /\ req' = [req EXCEPT ![r].pc = "done",
                          ![r].response = "Failed to create booking"]
    /\ UNCHANGED <<buses, schedules, bookings, initialSeats>>
    /\ UNCHANGED <<clients, readyState, joinedAt, socketEvents, tickVars,
                   flowVars>>

\* storage.createSchedule(insertSchedule): a fresh id,
\* status: insertSchedule.status || "scheduled"
CreateSchedule(busId, price, seats, status) ==
    /\ Cardinality(DOMAIN schedules) < 2 + MaxCreatedSchedules
    /\ LET id == Cardinality(DOMAIN schedules) + 1 IN
       /\ schedules' = schedules @@
            (id :> [busId |-> busId, price |-> price, availableSeats |-> seats,
                    status |-> IF status = "none" THEN "scheduled" ELSE status])
       /\ initialSeats' = initialSeats @@ (id :> seats)
    /\ UNCHANGED <<buses, bookings, req, broadcasts, hubVars, tickVars, flowVars>>

\* wss.on('connection'): clients.add(ws).  Socket c is the c-th connection
\* the server accepts.
Connection(c) ==
    /\ readyState[c] = "NONE"
    /\ c > 1 => readyState[c - 1] # "NONE"
    /\ clients' = clients \cup {c}
    /\ readyState' = [readyState EXCEPT ![c] = "OPEN"]
    /\ joinedAt' = [joinedAt EXCEPT ![c] = Len(broadcasts)]
    /\ UNCHANGED <<storeVars, req, broadcasts, inbox, audience, socketEvents,
                   tickVars, flowVars>>

\* the transport of socket c starts to close (a close frame was sent or
\* received): ws.readyState is CLOSING, no event has been emitted yet
Closing(c) ==
    /\ readyState[c] = "OPEN"
    /\ readyState' = [readyState EXCEPT ![c] = "CLOSING"]
    /\ UNCHANGED <<storeVars, req, broadcasts, clients, inbox, joinedAt,
                   audience, socketEvents, tickVars, flowVars>>

\* ws.on('close'): the socket is CLOSED; clients.delete(ws)
OnClose(c) ==
    /\ readyState[c] \in {"OPEN", "CLOSING"}
    /\ readyState' = [readyState EXCEPT ![c] = "CLOSED"]
    /\ clients' = clientsDelete(clients, c)
    /\ socketEvents' = [socketEvents EXCEPT ![c] = Append(@, "close")]
    /\ UNCHANGED <<storeVars, req, broadcasts, inbox, joinedAt, audience,
                   tickVars, flowVars>>

\* ws.on('error'): the socket is closing; clients.delete(ws)
OnError(c) ==
    /\ readyState[c] \in {"OPEN", "CLOSING"}
    /\ readyState' = [readyState EXCEPT ![c] = "CLOSING"]
    /\ clients' = clientsDelete(clients, c)
    /\ clients' # clients
    /\ socketEvents' = [socketEvents EXCEPT ![c] = Append(@, "error")]
    /\ UNCHANGED <<storeVars, req, broadcasts, inbox, joinedAt, audience,
                   tickVars, flowVars>>

\* --- the seat-selection dialog (bus-map.tsx) and POST /api/payment/process

\* apiRequest of @/lib/queryClient: the fetch is made and a response that
\* is not ok is thrown, so the mutation is rejected
apiRequest(status) == IF status >= 400 THEN "rejected" ELSE "resolved"

\* the payment handler's timer callback: res.json(...), status 200, when
\* isSuccess, and res.status(400).json(...) otherwise
paymentResponseStatus(isSuccess) == IF isSuccess THEN 200 ELSE 400

\* the message of the payment handler's response
paymentResponseMessage(isSuccess) ==
    IF isSuccess THEN "Payment processed successfully"
    ELSE "Payment failed. Please try again."

\* a paymentMutation whose onError goes on to the booking as onSuccess does
paymentMutationSettledBooksAnyway(outcome) == "booking"

\* paymentMutation: onSuccess calls bookingMutation.mutate(), onError only
\* shows the "Payment Failed" toast
paymentMutationSettled(outcome) ==
    IF outcome = "resolved" THEN "booking" ELSE "paymentFailed"

\* bookingMutation's request body
bookingMutationBody(a) ==
    [scheduleId |-> 1, seatNumbers |-> attempt[a].selectedSeats,
     totalAmount |-> Len(attempt[a].selectedSeats) * Schedule1Price,
     status |-> "confirmed",
     passengerDetails |-> attempt[a].passengerDetails]

\* the POST /api/bookings requests sent so far
RequestsSent == {attempt[a].request : a \in Attempts} \ {0}

\* handleProceedToPayment: without seats or passenger details a toast and
\* nothing else; otherwise paymentMutation.mutate() sends the payment request
HandleProceedToPayment(a, selectedSeats, passengerDetails) ==
    /\ attempt[a].pc = "idle"
    /\ a > 1 => attempt[a - 1].pc # "idle"
    /\ attempt' = [attempt EXCEPT ![a] =
          [@ EXCEPT !.selectedSeats = selectedSeats,
                    !.passengerDetails = passengerDetails,
                    !.pc = IF selectedSeats = <<>> \/ passengerDetails = "none"
                           THEN "refused" ELSE "paying"]]
    /\ UNCHANGED <<storeVars, req, broadcasts, hubVars, tickVars, cancelLog,
                   sideVars>>

\* POST /api/payment/process: isSuccess is drawn and the timer is set
PaymentProcess(a, isSuccess) ==
    /\ attempt[a].pc = "paying"
    /\ attempt' = [attempt EXCEPT ![a].pc = "processing",
                                  ![a].isSuccess = isSuccess]
    /\ UNCHANGED <<storeVars, req, broadcasts, hubVars, tickVars, cancelLog,
                   sideVars>>

\* the timer fires after 2000 ms and the response is sent
PaymentRespond(a) ==
    /\ attempt[a].pc = "processing"
    /\ attempt' = [attempt EXCEPT ![a].pc = "responded",
                      ![a].status = paymentResponseStatus(attempt[a].isSuccess)]
    /\ UNCHANGED <<storeVars, req, broadcasts, hubVars, tickVars, cancelLog,
                   sideVars>>

\* the payment mutation settles in the dialog; going on to the booking
\* sends POST /api/bookings
PaymentMutationSettled(a) ==
    /\ attempt[a].pc = "responded"
    /\ LET pc == paymentMutationSettled(apiRequest(attempt[a].status)) IN
       attempt' = [attempt EXCEPT ![a].pc = pc,
                      ![a].request = IF pc = "booking"
                                     THEN Cardinality(RequestsSent) + 1
                                     ELSE 0]
    /\ UNCHANGED <<storeVars, req, broadcasts, hubVars, tickVars, cancelLog,
                   sideVars>>

\* the booking mutation settles: onSuccess closes the dialog, onError shows
\* the "Booking Failed" toast
BookingMutationSettled(a) ==
    /\ attempt[a].pc = "booking"
    /\ attempt[a].request \in Requests
    /\ req[attempt[a].request].pc = "done"
    /\ attempt' = [attempt EXCEPT ![a].pc =
          IF req[attempt[a].request].response = "ok"
          THEN "booked" ELSE "bookingFailed"]
    /\ UNCHANGED <<storeVars, req, broadcasts, hubVars, tickVars, cancelLog,
                   sideVars>>

\* storage.updateBookingStatus(id, status); there is no await inside, the
\* call is one step
UpdateBookingStatus(id, status) ==
    /\ Len(cancelLog) < MaxStatusCalls
    /\ bookings' = updateBookingStatus(bookings, id, status)
    /\ cancelLog' = Append(cancelLog,
          [id |-> id, status |-> status,
           returned |-> updateBookingStatusReturns(bookings, id, status),
           before |-> Store(bookings, schedules),
           after |-> Store(bookings', schedules)])
    /\ UNCHANGED <<buses, schedules, initialSeats, req, broadcasts, hubVars,
                   tickVars, attempt, sideVars>>

\* storage.createBus(insertBus): the bus is stored under a fresh id; it has
\* no location
CreateBus(capacity) ==
    /\ Cardinality(DOMAIN buses) < 2 + MaxCreatedBuses
    /\ buses' = buses @@
          (Cardinality(DOMAIN buses) + 1 :> [capacity |-> capacity])
    /\ UNCHANGED <<schedules, bookings, initialSeats, req, broadcasts,
                   hubVars, tickVars, flowVars>>

\* storage.updateSchedule(id, updates), one step
UpdateSchedule(id, updates) ==
    /\ schedules' = updateSchedule(schedules, id, updates)
    /\ schedules' # schedules
    /\ UNCHANGED <<buses, bookings, initialSeats, req, broadcasts, hubVars,
                   tickVars, flowVars>>

\* --- the client hook useWebSocket (use-websocket.tsx)

\* everything but the hook's own variables
notHookVars ==
    <<storeVars, req, broadcasts, hubVars, tickVars, attempt, cancelLog,
      joined, authVars>>

\* an onclose that also reconnects when the counter is at the limit
shouldReconnectAtLimit(attempts) == attempts <= maxReconnectAttempts

\* onclose: if (reconnectAttemptsRef.current < maxReconnectAttempts)
shouldReconnect(attempts) == attempts < maxReconnectAttempts

\* the body of connect(): setConnectionStatus("connecting"), a new
\* WebSocket is created and kept in wsRef, its handlers are attached
connectBody(h) ==
    [h EXCEPT !.connectionStatus = "connecting", !.wsRef = Len(ws) + 1]

\* connect() called by the effect on mount or by the component
Connect ==
    /\ Len(ws) < MaxSockets
    /\ hook.connectCalls < MaxConnectCalls
    /\ hook' = [connectBody(hook) EXCEPT !.connectCalls = @ + 1,
                                         !.disconnected = FALSE]
    /\ ws' = Append(ws, "CONNECTING")
    /\ UNCHANGED <<notHookVars, timers>>

\* a reconnect timer fires: connect().  The ref keeps the spent handle.
ReconnectTimeout(t) ==
    /\ t \in timers
    /\ Len(ws) < MaxSockets
    /\ timers' = timers \ {t}
    /\ hook' = connectBody(hook)
    /\ ws' = Append(ws, "CONNECTING")
    /\ UNCHANGED notHookVars

\* socket k opens: onopen sets "connected" and resets the counter
SocketOpen(k) ==
    /\ ws[k] = "CONNECTING"
    /\ ws' = [ws EXCEPT ![k] = "OPEN"]
    /\ hook' = [hook EXCEPT !.connectionStatus = "connected",
                            !.reconnectAttempts = 0, !.sinceOpen = 0]
    /\ UNCHANGED <<notHookVars, timers>>

\* socket k fails: the browser fires error, and will fire close next;
\* onerror sets "error"
SocketError(k) ==
    /\ ws[k] \in {"CONNECTING", "OPEN"}
    /\ ws' = [ws EXCEPT ![k] = "CLOSING"]
    /\ hook' = [hook EXCEPT !.connectionStatus = "error"]
    /\ UNCHANGED <<notHookVars, timers>>

\* socket k is closed, by either end or after an error: onclose sets
\* "disconnected" and, below the limit, counts an attempt and sets a timer
SocketClose(k) ==
    /\ ws[k] \in {"CONNECTING", "OPEN", "CLOSING"}
    /\ ws' = [ws EXCEPT ![k] = "CLOSED"]
    /\ IF shouldReconnect(hook.reconnectAttempts)
       THEN /\ hook' = [hook EXCEPT !.connectionStatus = "disconnected",
                                    !.reconnectAttempts = @ + 1,
                                    !.sinceOpen = @ + 1,
                                    !.timersSet = @ + 1,
                                    !.reconnectTimeoutRef = hook.timersSet + 1]
            /\ timers' = timers \cup {hook.timersSet + 1}
       ELSE /\ hook' = [hook EXCEPT !.connectionStatus = "disconnected"]
            /\ UNCHANGED timers
    /\ UNCHANGED notHookVars

\* disconnect(), called by the component or by the effect's cleanup: the
\* timer in the ref is cleared, the socket in wsRef is closed and dropped,
\* setConnectionStatus("disconnected")
Disconnect ==
    /\ timers' = timers \ {hook.reconnectTimeoutRef}
    /\ ws' = IF hook.wsRef # 0 /\ ws[hook.wsRef] \in {"CONNECTING", "OPEN"}
             THEN [ws EXCEPT ![hook.wsRef] = "CLOSING"]
             ELSE ws
    /\ hook' = [hook EXCEPT !.reconnectTimeoutRef = 0, !.wsRef = 0,
                            !.connectionStatus = "disconnected",
                            !.disconnected = TRUE]
    /\ hook' # hook
    /\ UNCHANGED notHookVars

\* --- POST /api/auth/register

\* insertUserSchema.parse(req.body): email is notNull
insertUserSchemaParse(body) == body.email # "none"

\* getUserByEmail: whether find(user => user.email === email) finds a user
getUserByEmail(us, email) == \E i \in DOMAIN us : us[i].email = email

\* createUser: the user is stored under a fresh id
createUser(us, insertUser) == Append(us, [email |-> insertUser.email])

\* the handler up to its first await: the body is parsed and
\* storage.getUserByEmail is called
PostRegister(g, body) ==
    /\ reg[g].pc = "idle"
    /\ g > 1 => reg[g - 1].pc # "idle"
    /\ reg' = [reg EXCEPT ![g] =
          IF insertUserSchemaParse(body)
          THEN [pc |-> "awaitingLookup", email |-> body.email,
                existingUser |-> getUserByEmail(users, body.email),
                response |-> "none"]
          ELSE [pc |-> "done", email |-> body.email, existingUser |-> FALSE,
                response |-> "Invalid registration data"]]
    /\ UNCHANGED <<storeVars, req, broadcasts, hubVars, tickVars, attempt,
                   cancelLog, joined, users, hookVars>>

\* the lookup resolves: 'User already exists', or storage.createUser is
\* called and awaited
PostRegisterCreate(g) ==
    /\ reg[g].pc = "awaitingLookup"
    /\ IF reg[g].existingUser
       THEN /\ reg' = [reg EXCEPT ![g].pc = "done",
                                  ![g].response = "User already exists"]
            /\ UNCHANGED users
       ELSE /\ users' = createUser(users, [email |-> reg[g].email])
            /\ reg' = [reg EXCEPT ![g].pc = "awaitingCreate"]
    /\ UNCHANGED <<storeVars, req, broadcasts, hubVars, tickVars, attempt,
                   cancelLog, joined, hookVars>>

\* createUser resolves: res.json({ user })
PostRegisterRespond(g) ==
    /\ reg[g].pc = "awaitingCreate"
    /\ reg' = [reg EXCEPT ![g].pc = "done", ![g].response = "ok"]
    /\ UNCHANGED <<storeVars, req, broadcasts, hubVars, tickVars, attempt,
                   cancelLog, joined, users, hookVars>>

\* storage.getSchedule(id), one step
GetSchedule(id) ==
    /\ joined' = [call |-> "getSchedule", id |-> id,
                  result |-> getScheduleWithDetails(schedules, buses, id)]
    /\ UNCHANGED <<storeVars, req, broadcasts, hubVars, tickVars, attempt,
                   cancelLog, authVars, hookVars>>

\* storage.getBooking(id); the inner getSchedule has no await inside and
\* nothing runs between the two reads
GetBooking(id) ==
    /\ joined' = [call |-> "getBooking", id |-> id,
                  result |-> getBooking(bookings, schedules, buses, id)]
    /\ UNCHANGED <<storeVars, req, broadcasts, hubVars, tickVars, attempt,
                   cancelLog, authVars, hookVars>>

\* --- the setInterval callback.  Each await ends a step: the callback runs
\* --- to its next await, and the event loop may run other handlers there.

\* random numbers for one tick: for every bus a latitude, a longitude and an
\* occupancy draw
Draws(positionDeltas, occupancyDeltas) ==
    [DOMAIN buses -> [lat : positionDeltas, lng : positionDeltas,
                      occ : occupancyDeltas]]

\* the timer fires: storage.getBusesWithLocations() is called and awaited
TickStart(limit) ==
    /\ tick.pc = "idle"
    /\ tick.count < limit
    /\ tick' = [pc |-> "reading",
                snapshot |-> getBusesWithLocations(buses, busLocations, 1),
                updates |-> <<>>, next |-> 0, count |-> tick.count + 1]
    /\ UNCHANGED <<storeVars, req, broadcasts, hubVars, busLocations, lastTick,
                   flowVars>>

\* broadcast({type: 'bus_locations_update', data: updates}) and the end of
\* the callback.  The event log names the tick; the data sent is kept in
\* lastTick.updates.
TickEmit(updates) ==
    /\ broadcasts' = broadcast(broadcasts,
                         [type |-> "bus_locations_update",
                          tick |-> tick.count])
    /\ inbox' = broadcastSend(inbox, clients, readyState, Len(broadcasts'))
    /\ audience' = Append(audience, OpenClients(clients, readyState))
    /\ lastTick' = [tick |-> tick.count, updates |-> updates,
                    stored |-> busLocations, failed |-> 0, emitted |-> TRUE]
    /\ tick' = [tick EXCEPT !.pc = "idle", !.snapshot = <<>>,
                            !.updates = <<>>, !.next = 0]
    /\ UNCHANGED <<storeVars, req, clients, readyState, joinedAt, socketEvents,
                   busLocations, flowVars>>

\* the awaited storage.updateBusLocation(update) rejects: nothing catches it
\* in the callback, which ends there
TickAbort(updates, update) ==
    /\ lastTick' = [tick |-> tick.count, updates |-> updates,
                    stored |-> busLocations, failed |-> update.busId,
                    emitted |-> FALSE]
    /\ tick' = [tick EXCEPT !.pc = "idle", !.snapshot = <<>>,
                            !.updates = <<>>, !.next = 0]
    /\ UNCHANGED <<storeVars, req, broadcasts, hubVars, busLocations,
                   flowVars>>

\* the k-th pass of `for (const update of updates)`: the store call, then
\* the await
TickWrite(updates, k, rejects) ==
    IF rejects
    THEN TickAbort(updates, updates[k])
    ELSE /\ busLocations' = updateBusLocation(busLocations, updates[k],
                                              tick.count)
         /\ tick' = [tick EXCEPT !.pc = "updating", !.updates = updates,
                                 !.next = k]
         /\ UNCHANGED <<storeVars, req, broadcasts, hubVars, lastTick,
                        flowVars>>

\* the read resolves: the updates are computed from the buses read, and the
\* loop makes its first store call (or, with nothing to update, the event
\* is broadcast at once)
TickCompute(draws, rejects) ==
    /\ tick.pc = "reading"
    /\ LET updates == Updates(tick.snapshot, draws) IN
       IF updates = <<>>
       THEN ~rejects /\ TickEmit(updates)
       ELSE TickWrite(updates, 1, rejects)

\* a store call resolves and the loop makes the next one
TickUpdate(rejects) ==
    /\ tick.pc = "updating"
    /\ tick.next < Len(tick.updates)
    /\ TickWrite(tick.updates, tick.next + 1, rejects)

\* the last store call resolves and the event is broadcast
TickBroadcast ==
    /\ tick.pc = "updating"
    /\ tick.next = Len(tick.updates)
    /\ TickEmit(tick.updates)

Next ==
    \/ \E r \in Requests, id \in ScheduleIdInputs(schedules),
          seats \in SeatLists, amount \in Amounts,
          status \in BookingStatusInputs, details \in PassengerDetailsInputs :
          PostBookings(r, [scheduleId |-> id, seatNumbers |-> seats,
                           totalAmount |-> amount, status |-> status,
                           passengerDetails |-> details])
    \/ \E r \in Requests : PostBookingsRespond(r)
    \/ \E busId \in NewScheduleBuses, price \in NewSchedulePrices,
          seats \in 0..MaxCreatedSeats, status \in NewScheduleStatuses :
          CreateSchedule(busId, price, seats, status)

Spec == Init /\ [][Next]_vars

\* The requests that pass validation, as the seat-selection dialog sends
\* them (totalAmount = seats x price, status "confirmed"), against the
\* seeded schedules or an id of no schedule.
NextCommits ==
    \/ \E r \in Requests, id \in {UnknownScheduleId, 1, 2}, seats \in SeatLists :
          PostBookings(r, [scheduleId |-> id, seatNumbers |-> seats,
                           totalAmount |->
                               Len(seats) * Snapshot(schedules, id).price,
                           status |-> "confirmed",
                           passengerDetails |-> "details"])
    \/ \E r \in Requests : PostBookingsRespond(r)

SpecCommits == Init /\ [][NextCommits]_vars

\* The client set and the booking handler's broadcast: sockets connect,
\* close and fail while requests, valid and malformed, are handled.
NextHub ==
    \/ \E r \in Requests, id \in {UnknownScheduleId, 1},
          details \in PassengerDetailsInputs :
          PostBookings(r, [scheduleId |-> id, seatNumbers |-> <<"1A">>,
                           totalAmount |-> Snapshot(schedules, id).price,
                           status |-> "confirmed",
                           passengerDetails |-> details])
    \/ \E r \in Requests : PostBookingsRespond(r)
    \/ \E c \in Sockets : Connection(c)
    \/ \E c \in Sockets : Closing(c)
    \/ \E c \in Sockets : OnClose(c)
    \/ \E c \in Sockets : OnError(c)

SpecHub == Init /\ [][NextHub]_vars

\* The same, where a client.send call may throw.
NextHubSendThrows ==
    \/ NextHub
    \/ \E r \in Requests, t \in Sockets : PostBookingsRespondSendThrows(r, t)

SpecHubSendThrows == Init /\ [][NextHubSendThrows]_vars

\* ================================================================= claims
\* the requests the server has started to handle
\* bookings of one or two seats on schedule 1, and cancellations of stored
\* and of unknown bookings
NextCancel ==
    \/ \E r \in Requests, seats \in {<<"1A">>, <<"1A", "1B">>} :
          PostBookings(r, [scheduleId |-> 1, seatNumbers |-> seats,
                           totalAmount |->
                               Len(seats) * Snapshot(schedules, 1).price,
                           status |-> "confirmed",
                           passengerDetails |-> "details"])
    \/ \E r \in Requests : PostBookingsRespond(r)
    \/ \E id \in 1..(MaxRequests + 1) : UpdateBookingStatus(id, "cancelled")

SpecCancel == Init /\ [][NextCancel]_vars

\* booking requests in flight together with a GPS tick and with reads
NextAtomic ==
    \/ \E r \in Requests, id \in {UnknownScheduleId, 1, 2},
          seats \in {<<"1A">>, <<"1A", "1B">>} :
          PostBookings(r, [scheduleId |-> id, seatNumbers |-> seats,
                           totalAmount |->
                               Len(seats) * Snapshot(schedules, id).price,
                           status |-> "confirmed",
                           passengerDetails |-> "details"])
    \/ \E r \in Requests : PostBookingsRespond(r)
    \/ \E id \in {1, 2} : GetSchedule(id)
    \/ TickStart(1)
    \/ \E draws \in Draws({4}, {4}) : TickCompute(draws, FALSE)
    \/ TickUpdate(FALSE)
    \/ TickBroadcast

SpecAtomic == Init /\ [][NextAtomic]_vars

\* GPS ticks and booking requests in flight together, over a fleet that may
\* hold a bus without location
NextInterleave ==
    \/ \E r \in Requests, id \in {1, 2} :
          PostBookings(r, [scheduleId |-> id, seatNumbers |-> <<"1A">>,
                           totalAmount |-> Snapshot(schedules, id).price,
                           status |-> "confirmed",
                           passengerDetails |-> "details"])
    \/ \E r \in Requests : PostBookingsRespond(r)
    \/ CreateBus(40)
    \/ TickStart(1)
    \/ \E draws \in Draws({4}, OccupancyExtremes) : TickCompute(draws, FALSE)
    \/ TickUpdate(FALSE)
    \/ TickBroadcast

SpecInterleave == Init /\ [][NextInterleave]_vars

\* the client hook, its sockets and its timers
NextHook ==
    \/ Connect
    \/ \E t \in timers : ReconnectTimeout(t)
    \/ \E k \in DOMAIN ws : SocketOpen(k)
    \/ \E k \in DOMAIN ws : SocketError(k)
    \/ \E k \in DOMAIN ws : SocketClose(k)
    \/ Disconnect

SpecHook == Init /\ [][NextHook]_vars

\* registrations in flight together
NextRegister ==
    \/ \E g \in Registrations, email \in EmailInputs :
          PostRegister(g, [email |-> email])
    \/ \E g \in Registrations : PostRegisterCreate(g)
    \/ \E g \in Registrations : PostRegisterRespond(g)

SpecRegister == Init /\ [][NextRegister]_vars

\* every operation that writes the store, around one booking of schedule
\* 1: the booking, its cancellation, schedule creation and update, and a
\* GPS tick
NextInventory ==
    \/ PostBookings(1, [scheduleId |-> 1, seatNumbers |-> <<"1A", "1B">>,
                        totalAmount |-> 2 * Snapshot(schedules, 1).price,
                        status |-> "confirmed",
                        passengerDetails |-> "details"])
    \/ PostBookingsRespond(1)
    \/ UpdateBookingStatus(1, "cancelled")
    \/ CreateSchedule(2, 1000, 2, "none")
    \/ \E updates \in ScheduleUpdates : UpdateSchedule(1, updates)
    \/ TickStart(1)
    \/ \E draws \in Draws({4}, {4}) : TickCompute(draws, FALSE)
    \/ TickUpdate(FALSE)
    \/ TickBroadcast

SpecInventory == Init /\ [][NextInventory]_vars

\* the join accessors over a store in which a schedule may name a bus that
\* does not exist and a booking a schedule that does not exist
NextJoin ==
    \/ \E r \in Requests, id \in {UnknownScheduleId, 1, 3} :
          PostBookings(r, [scheduleId |-> id, seatNumbers |-> <<"1A">>,
                           totalAmount |-> Snapshot(schedules, id).price,
                           status |-> "confirmed",
                           passengerDetails |-> "details"])
    \/ \E r \in Requests : PostBookingsRespond(r)
    \/ \E busId \in {2, UnknownBusId} : CreateSchedule(busId, 1000, 2, "none")
    \/ \E id \in 0..3 : GetSchedule(id)
    \/ \E id \in 1..MaxRequests : GetBooking(id)

SpecJoin == Init /\ [][NextJoin]_vars

\* the booking flow: the dialog, the payment handler, and the booking
\* handler serving the requests the dialog has sent
NextPayment ==
    \/ \E a \in Attempts, seats \in {<<>>, <<"1A">>, <<"1A", "1B">>},
          details \in PassengerDetailsInputs :
          HandleProceedToPayment(a, seats, details)
    \/ \E a \in Attempts, isSuccess \in BOOLEAN : PaymentProcess(a, isSuccess)
    \/ \E a \in Attempts : PaymentRespond(a)
    \/ \E a \in Attempts : PaymentMutationSettled(a)
    \/ \E a \in Attempts :
          /\ attempt[a].pc = "booking"
          /\ attempt[a].request \in Requests
          /\ PostBookings(attempt[a].request, bookingMutationBody(a))
    \/ \E r \in Requests : PostBookingsRespond(r)
    \/ \E a \in Attempts : BookingMutationSettled(a)

SpecPayment == Init /\ [][NextPayment]_vars

\* the GPS tick with the occupancy draws only, the position standing still
NextOccupancy ==
    \/ TickStart(MaxOccupancyTicks)
    \/ \E draws \in Draws({0}, OccupancyDeltas) : TickCompute(draws, FALSE)
    \/ TickUpdate(FALSE)
    \/ TickBroadcast

SpecOccupancy == Init /\ [][NextOccupancy]_vars

\* the GPS tick with position and occupancy draws
NextTick ==
    \/ TickStart(MaxTicks)
    \/ \E draws \in Draws(PositionDeltas, OccupancyExtremes) : TickCompute(draws, FALSE)
    \/ TickUpdate(FALSE)
    \/ TickBroadcast

SpecTick == Init /\ [][NextTick]_vars

\* the GPS tick over a store whose updateBusLocation may reject
NextTickRejects ==
    \/ TickStart(MaxTicks)
    \/ \E draws \in Draws({4}, OccupancyExtremes), rejects \in BOOLEAN :
          TickCompute(draws, rejects)
    \/ \E rejects \in BOOLEAN : TickUpdate(rejects)
    \/ TickBroadcast

SpecTickRejects == Init /\ [][NextTickRejects]_vars

Handled == {r \in Requests : req[r].pc # "idle"}

\* the requests that were answered
Answered == {r \in Requests : req[r].pc = "done"}

Bookable(status) == status \notin {"cancelled", "completed"}

\* C1: after any sequence of createBooking calls, no schedule's
\* availableSeats is negative.
C1_AvailableSeatsNeverNegative ==
    \A id \in DOMAIN schedules : schedules[id].availableSeats >= 0

\* C2: in every reachable state, the seeded one included, for every schedule
\* the bus's capacity minus availableSeats equals the number of seat labels
\* held by the schedule's confirmed bookings.
C2_BookedSeatsMatchInventory ==
    \A id \in DOMAIN schedules :
        buses[schedules[id].busId].capacity - schedules[id].availableSeats
            = SumSeats(ConfirmedBookingsOf(bookings, id))

\* C3: two distinct confirmed bookings of the same schedule hold disjoint
\* sets of seat labels.
C3_ConfirmedSeatsDisjoint ==
    \A i, j \in DOMAIN bookings :
        (/\ i # j
         /\ bookings[i].scheduleId = bookings[j].scheduleId
         /\ bookings[i].status = "confirmed"
         /\ bookings[j].status = "confirmed")
        => Range(bookings[i].seatNumbers) \cap Range(bookings[j].seatNumbers) = {}

\* C4: a valid request for more seats than the schedule has available fails
\* with CapacityExceededError, stores no booking and leaves availableSeats
\* as it was.
C4_OverCapacityRejected ==
    \A r \in Handled :
        (/\ req[r].parsed
         /\ req[r].before.exists
         /\ Bookable(req[r].before.status)
         /\ Len(req[r].seatNumbers) > req[r].before.availableSeats)
        => /\ req[r].bookingId = 0
           /\ req[r].after.availableSeats = req[r].before.availableSeats
           /\ r \in Answered => req[r].response = "CapacityExceededError"

\* C5: a request naming a schedule id that does not exist fails with
\* NotFoundError and no booking record is stored for it.
C5_UnknownScheduleRejected ==
    /\ \A i \in DOMAIN bookings : bookings[i].scheduleId \in DOMAIN schedules
    /\ \A r \in Handled :
        (req[r].parsed /\ ~req[r].before.exists)
        => /\ req[r].bookingId = 0
           /\ r \in Answered => req[r].response = "NotFoundError"

\* C6: a request against a cancelled or completed schedule is rejected
\* whatever its availableSeats; it stores no booking and leaves
\* availableSeats as it was.
C6_ClosedScheduleRejected ==
    \A r \in Handled :
        (req[r].before.exists /\ ~Bookable(req[r].before.status))
        => /\ req[r].response # "ok"
           /\ req[r].bookingId = 0
           /\ req[r].after.availableSeats = req[r].before.availableSeats

\* C7: a request with an empty list of seat labels is rejected: no booking
\* is stored and no booking_created event is emitted for it.
C7_EmptySeatListRejected ==
    \A r \in Handled :
        req[r].seatNumbers = <<>>
        => /\ req[r].response # "ok"
           /\ req[r].bookingId = 0
           /\ \A i \in DOMAIN bookings : bookings[i].seatNumbers # <<>>
           /\ \A e \in Range(broadcasts) :
                 e.type = "booking_created" => e.bookingId # req[r].bookingId

\* C8: K requests fired against a schedule created with exactly K seats,
\* asking for more than K seats in total: availableSeats is never negative,
\* and once all are answered availableSeats is 0 and every request that did
\* not succeed failed with CapacityExceededError.
C8_ConcurrentRequestsExhaustExactly ==
    \A id \in DOMAIN schedules :
        (/\ Handled = Requests
         /\ initialSeats[id] = Cardinality(Requests)
         /\ Bookable(schedules[id].status)
         /\ \A r \in Requests : req[r].parsed /\ req[r].scheduleId = id
         /\ \A r \in Requests : req[r].before.exists
         /\ SumSeats([r \in Requests |-> req[r]]) > Cardinality(Requests))
        => /\ schedules[id].availableSeats >= 0
           /\ Answered = Requests =>
                /\ schedules[id].availableSeats = 0
                /\ \A r \in Requests :
                      req[r].response \in {"ok", "CapacityExceededError"}

\* C9: for a schedule that exists, after createBooking commits with seat
\* counts c1..cn a read of the schedule returns its initial availableSeats
\* minus c1+...+cn: no decrement is lost or applied twice.
C9_ReadsReflectEveryCommit ==
    \A id \in DOMAIN schedules :
        getSchedule(schedules, id).availableSeats
            = initialSeats[id] - SumSeats(BookingsOf(bookings, id))

\* C9 witness: a schedule with two commits, of different seat counts, the
\* second made while the first request was still being handled
C9_TwoCommitsRead ==
    \E id \in DOMAIN schedules :
        /\ Len(BookingsOf(bookings, id)) = 2
        /\ Len(BookingsOf(bookings, id)[1].seatNumbers)
             # Len(BookingsOf(bookings, id)[2].seatNumbers)
        /\ SumSeats(BookingsOf(bookings, id)) = 3
        /\ \A r \in Requests : req[r].pc = "awaiting" /\ req[r].scheduleId = id
        /\ getSchedule(schedules, id).availableSeats = initialSeats[id] - 3

\* C10: every stored booking has totalAmount = the schedule's price at
\* booking time x the number of its seat labels, whatever the request
\* carried.
C10_TotalAmountIsPriceTimesSeats ==
    \A r \in Handled :
        (req[r].bookingId # 0 /\ req[r].before.exists)
        => bookings[req[r].bookingId].totalAmount
             = req[r].before.price * Len(bookings[req[r].bookingId].seatNumbers)

\* the booking_created events emitted for booking id
BookingCreatedEvents(id) ==
    {i \in DOMAIN broadcasts :
        broadcasts[i].type = "booking_created" /\ broadcasts[i].bookingId = id}

\* C11: a successful createBooking emits exactly one booking_created event,
\* carrying the stored booking's id and schedule id, after the booking and
\* its seat decrement are in the store; a failed one emits none.
C11_OneEventPerStoredBooking ==
    /\ \A r \in Requests :
          IF req[r].response = "ok"
          THEN /\ Cardinality(BookingCreatedEvents(req[r].bookingId)) = 1
               /\ \A i \in BookingCreatedEvents(req[r].bookingId) :
                     broadcasts[i].scheduleId = req[r].scheduleId
          ELSE BookingCreatedEvents(req[r].bookingId) = {}
    /\ \A i \in DOMAIN broadcasts :
          broadcasts[i].type = "booking_created" =>
             /\ broadcasts[i].bookingId \in DOMAIN bookings
             /\ bookings[broadcasts[i].bookingId].scheduleId
                   = broadcasts[i].scheduleId
             /\ \E r \in Requests :
                   /\ req[r].bookingId = broadcasts[i].bookingId
                   /\ req[r].before.exists =>
                         schedules[req[r].scheduleId].availableSeats
                            <= req[r].before.availableSeats
                                 - Len(req[r].seatNumbers)

\* C11 witness: one request stored a booking and its event was sent to an
\* open client, another request failed validation and emitted nothing
C11_OneStoredOneRejected ==
    \E r1, r2 \in Requests :
        /\ req[r1].response = "ok"
        /\ req[r1].before.exists
        /\ req[r2].response = "Failed to create booking"
        /\ Len(broadcasts) = 1
        /\ broadcasts[1].bookingId = req[r1].bookingId
        /\ \E c \in Sockets : inbox[c] = <<1>>

\* the updateBookingStatus calls that cancelled a stored booking whose
\* status was `was`
Cancellations(was) ==
    {k \in DOMAIN cancelLog :
        /\ cancelLog[k].status = "cancelled"
        /\ cancelLog[k].id \in DOMAIN cancelLog[k].before.bookings
        /\ cancelLog[k].before.bookings[cancelLog[k].id].status = was}

\* C12: cancelling a confirmed booking that holds n seat labels sets its
\* status to cancelled and raises its schedule's availableSeats by exactly n.
C12_CancelRestoresSeats ==
    \A k \in Cancellations("confirmed") :
        LET call == cancelLog[k]
            booking == call.before.bookings[call.id] IN
        /\ call.after.bookings[call.id].status = "cancelled"
        /\ call.after.schedules[booking.scheduleId].availableSeats
             = call.before.schedules[booking.scheduleId].availableSeats
               + Len(booking.seatNumbers)

\* C13: cancelling a booking that is already cancelled returns the booking,
\* not an error, and leaves the booking, its schedule and every other
\* stored entity as the first cancellation left them.
C13_CancelTwiceIsNoOp ==
    \A k \in Cancellations("cancelled") :
        /\ cancelLog[k].after = cancelLog[k].before
        /\ cancelLog[k].returned = "booking"

\* C13 witness: a stored booking was cancelled, and cancelled again while
\* another booking stood confirmed.
C13_CancelledTwice ==
    \E j, k \in DOMAIN cancelLog :
        /\ j < k
        /\ j \in Cancellations("confirmed")
        /\ k \in Cancellations("cancelled")
        /\ cancelLog[j].id = cancelLog[k].id
        /\ \E i \in DOMAIN bookings : bookings[i].status = "confirmed"

\* C21: when a socket's close or error event has been handled the socket is
\* not in `clients`, whichever came first, and the close that follows an
\* error removes nothing more and leaves the set as it was.
C21_RemovalIdempotent ==
    [][\A c \in Sockets :
         /\ socketEvents'[c] # <<>> => c \notin clients'
         /\ (socketEvents[c] # <<>> /\ socketEvents'[c] # socketEvents[c])
            => clients' = clients]_vars

\* C21 witness: socket 1 raised an error and then closed, its two removals
\* made, while socket 2 is still registered.
C21_ErrorThenClose ==
    /\ socketEvents[1] = <<"error", "close">>
    /\ clients = {2}

\* the results returned so far for requests that parsed and asked for more
\* seats than their schedule had available
CapacityResults ==
    {req[r].response : r \in {q \in Answered :
        /\ req[q].parsed
        /\ req[q].before.exists
        /\ Len(req[q].seatNumbers) > req[q].before.availableSeats}}

\* the results returned so far for requests that did not parse
ValidationResults ==
    {req[r].response : r \in {q \in Answered : ~req[q].parsed}}

\* C22: a capacity failure, a validation failure and a payment failure are
\* told apart by the result returned: an over-capacity request is answered
\* with a failure, and that failure is neither the answer given to a
\* malformed request nor the answer given for a failed payment.
C22_FailuresDistinguishable ==
    /\ "ok" \notin CapacityResults \cup ValidationResults
    /\ CapacityResults \cap ValidationResults = {}
    /\ paymentResponseMessage(FALSE) \notin CapacityResults \cup ValidationResults

\* C25: no two stored users share an email, also when two registrations
\* with the same email are in flight together; a registration with an
\* email that was already stored when it arrived is rejected.
C25_EmailsUnique ==
    /\ \A i, j \in DOMAIN users : users[i].email = users[j].email => i = j
    /\ \A g \in Registrations :
          (reg[g].pc = "done" /\ reg[g].existingUser)
          => reg[g].response = "User already exists"

\* in this step a booking of schedule id was stored
Committed(id) ==
    /\ Len(bookings') = Len(bookings) + 1
    /\ bookings'[Len(bookings')].scheduleId = id

\* in this step a booking of schedule id went from confirmed to cancelled
Cancelled(id) ==
    \E i \in DOMAIN bookings :
        /\ bookings[i].scheduleId = id
        /\ bookings[i].status = "confirmed"
        /\ bookings'[i].status = "cancelled"

\* C26: the step that stores a booking is the step that takes its seats from
\* its schedule, and no other step takes seats: no state, whoever looks at
\* it, has the booking without the decrement or the decrement without the
\* booking.
C26_CreateBookingAtomic ==
    [][/\ Len(bookings') > Len(bookings)
          => LET booking == bookings'[Len(bookings')] IN
             booking.scheduleId \in DOMAIN schedules
             => schedules'[booking.scheduleId].availableSeats
                  = schedules[booking.scheduleId].availableSeats
                    - Len(booking.seatNumbers)
       /\ \A id \in DOMAIN schedules :
             schedules'[id].availableSeats < schedules[id].availableSeats
             => Committed(id)]_vars

\* C26 witness: a tick is between two of its store calls and a read has
\* been made while a request has stored its two-seat booking and is not
\* yet answered; the schedule already shows the two seats taken.
C26_BookingSeenMidRequest ==
    /\ tick.pc = "updating"
    /\ joined.call = "getSchedule"
    /\ \E r \in Requests :
          /\ req[r].pc = "awaiting"
          /\ req[r].scheduleId = 1
          /\ Len(bookings[req[r].bookingId].seatNumbers) = 2
          /\ Len(bookings) = 1
          /\ schedules[1].availableSeats = Schedule1Seats - 2

\* C28: a step that changes a bus location changes nothing but latitude,
\* longitude, occupancy and updatedAt of records that exist: it keeps their
\* id, currentStop, delay and scheduleId, adds no record, and leaves
\* schedules and bookings alone; a step that stores a booking changes no
\* bus location and no schedule but the one booked.
C28_TickAndBookingDoNotInterfere ==
    [][/\ busLocations' # busLocations
          => /\ DOMAIN busLocations' = DOMAIN busLocations
             /\ \A b \in DOMAIN busLocations :
                   /\ busLocations'[b].id = busLocations[b].id
                   /\ busLocations'[b].currentStop = busLocations[b].currentStop
                   /\ busLocations'[b].delay = busLocations[b].delay
                   /\ busLocations'[b].scheduleId = busLocations[b].scheduleId
             /\ schedules' = schedules
             /\ bookings' = bookings
       /\ bookings' # bookings
          => /\ busLocations' = busLocations
             /\ \A id \in DOMAIN schedules :
                   id # bookings'[Len(bookings')].scheduleId
                   => schedules'[id] = schedules[id]]_vars

\* C28 witness: a tick that read the fleet with a bus without location has
\* written bus 1, a booking of schedule 2 was stored before its write of
\* bus 2, and the bus without location still has none.
C28_BookingBetweenTickWrites ==
    /\ tick.pc = "updating"
    /\ tick.next = 1
    /\ Len(tick.snapshot) = 3
    /\ Len(tick.updates) = 2
    /\ busLocations[1].updatedAt = tick.count
    /\ busLocations[2].updatedAt < tick.count
    /\ DOMAIN busLocations = {1, 2}
    /\ \E i \in DOMAIN bookings : bookings[i].scheduleId = 2

\* the status changes the connection state machine allows
StatusMoves ==
    {<<"connecting", "connected">>, <<"connecting", "disconnected">>,
     <<"connecting", "error">>, <<"connected", "disconnected">>,
     <<"connected", "error">>}

\* C27: once the hook has a connection, its connectionStatus moves only
\* connecting -> connected -> (disconnected | error), and never leaves
\* disconnected or error.
C27_StatusMovesForwardOnly ==
    [][hook'.connectionStatus # hook.connectionStatus
       => \/ <<hook.connectionStatus, hook'.connectionStatus>> \in StatusMoves
          \/ ws = <<>>]_vars

\* C29: after disconnect() has run, and until connect() is called again,
\* the hook holds no socket and no reconnect timer is pending.
C29_NoReconnectAfterDisconnect ==
    hook.disconnected => (timers = {} /\ hook.wsRef = 0)

\* C30: the attempt counter never exceeds maxReconnectAttempts and counts
\* the reconnects scheduled since the last open; it goes back to 0 only in
\* the step in which a socket opens; and at the limit no step sets a timer.
C30_ReconnectAttemptsBounded ==
    [][/\ hook'.reconnectAttempts <= maxReconnectAttempts
       /\ hook'.sinceOpen = hook'.reconnectAttempts
       /\ hook'.reconnectAttempts < hook.reconnectAttempts
          => /\ hook'.reconnectAttempts = 0
             /\ \E k \in DOMAIN ws : ws[k] = "CONNECTING" /\ ws'[k] = "OPEN"
       /\ hook.reconnectAttempts = maxReconnectAttempts
          => timers' \subseteq timers]_vars

\* C30 witness: maxReconnectAttempts reconnects in a row were made without
\* an open, the last socket has closed too, and no timer was set for it.
C30_GaveUpAtLimit ==
    /\ hook.reconnectAttempts = maxReconnectAttempts
    /\ hook.timersSet = maxReconnectAttempts
    /\ Len(ws) = maxReconnectAttempts + 1
    /\ \A k \in DOMAIN ws : ws[k] = "CLOSED"
    /\ timers = {}
    /\ ~hook.disconnected

\* C24: the availableSeats of an existing schedule changes only in a step
\* that stores a booking of that schedule, going down by the booking's seat
\* count, or in a step that cancels one, going up; updateSchedule,
\* createSchedule and the tick leave it as it is.
C24_SeatsChangeOnlyByBookingOrCancel ==
    [][\A id \in DOMAIN schedules :
         schedules'[id].availableSeats # schedules[id].availableSeats
         => \/ /\ Committed(id)
               /\ schedules'[id].availableSeats
                    = schedules[id].availableSeats
                      - Len(bookings'[Len(bookings')].seatNumbers)
            \/ /\ Cancelled(id)
               /\ schedules'[id].availableSeats
                    > schedules[id].availableSeats]_vars

\* the latest join accessor call was made on a stored record whose bus or
\* schedule is missing
JoinedDangling ==
    \/ /\ joined.call = "getSchedule"
       /\ joined.id \in DOMAIN schedules
       /\ schedules[joined.id].busId \notin DOMAIN buses
    \/ /\ joined.call = "getBooking"
       /\ joined.id \in DOMAIN bookings
       /\ \/ bookings[joined.id].scheduleId \notin DOMAIN schedules
          \/ schedules[bookings[joined.id].scheduleId].busId
                \notin DOMAIN buses

\* C23: a join accessor called on a schedule whose bus is missing, or on a
\* booking whose schedule or bus is missing, fails with IntegrityError; it
\* returns neither a record with an undefined bus nor "not found".
C23_DanglingJoinIsIntegrityError ==
    JoinedDangling => joined.result.kind = "IntegrityError"

TickEvents == SelectSeq(broadcasts, LAMBDA e : e.type = "bus_locations_update")

\* the ticks that have run to their end
TicksEnded == IF tick.pc = "idle" THEN tick.count ELSE tick.count - 1

\* the stored location of the update's bus carries the update's values
Stored(locs, u) ==
    /\ u.busId \in DOMAIN locs
    /\ locs[u.busId].latitude = u.latitude
    /\ locs[u.busId].longitude = u.longitude
    /\ locs[u.busId].occupancy = u.occupancy
    /\ locs[u.busId].currentStop = u.currentStop
    /\ locs[u.busId].delay = u.delay

\* C15: from the seeded state, after any number of ticks and whatever the
\* random draws, every bus's stored occupancy, and every occupancy a tick
\* computes and sends, is at least 0 and at most the bus's capacity.
C15_OccupancyWithinCapacity ==
    /\ \A b \in DOMAIN busLocations :
          /\ busLocations[b].occupancy >= 0
          /\ busLocations[b].occupancy <= buses[b].capacity
    /\ \A u \in Range(tick.updates) \cup Range(lastTick.updates) :
          /\ u.occupancy >= 0
          /\ u.occupancy <= buses[u.busId].capacity

\* C15 witness: in one tick bus 1 was read less than a full draw below its
\* capacity and is stored at its capacity, and bus 2 was read less than a
\* full draw above 0 and is stored at 0: both clamps have acted.
C15_BothClampsActed ==
    /\ tick.pc = "updating"
    /\ tick.next = 2
    /\ tick.snapshot[1].location.occupancy < buses[1].capacity
    /\ tick.snapshot[1].location.occupancy + 4 > buses[1].capacity
    /\ busLocations[1].occupancy = buses[1].capacity
    /\ tick.snapshot[2].location.occupancy > 0
    /\ tick.snapshot[2].location.occupancy - 5 < 0
    /\ busLocations[2].occupancy = 0

\* C16: every tick that has ended has broadcast exactly one
\* bus_locations_update event, a tick under way has broadcast none yet, and
\* at the moment of the broadcast the store held, for every bus of the
\* event, exactly the values the event carries.
C16_OneEventAfterAllWrites ==
    /\ \A n \in 1..tick.count :
          Len(SelectSeq(TickEvents, LAMBDA e : e.tick = n))
              = IF n <= TicksEnded THEN 1 ELSE 0
    /\ Len(TickEvents) = TicksEnded
    /\ lastTick.tick = TicksEnded
    /\ TicksEnded > 0
       => /\ lastTick.emitted
          /\ \A i \in DOMAIN lastTick.updates :
                Stored(lastTick.stored, lastTick.updates[i])

\* C16 witness: the second tick has ended with its event, which names both
\* buses, and has moved bus 1 away from its seeded position.
C16_TwoTicksBroadcast ==
    /\ Len(TickEvents) = 2
    /\ tick.pc = "idle"
    /\ lastTick.emitted
    /\ Len(lastTick.updates) = 2
    /\ lastTick.updates[1].latitude # Location1Latitude
    /\ lastTick.updates[2].occupancy # Location2Occupancy

\* C17: when the store update of one bus fails during a tick, the updates
\* of the tick's other buses are still applied to the store.
C17_FailedUpdateDoesNotStopOthers ==
    lastTick.failed # 0
    => \A i \in DOMAIN lastTick.updates :
          lastTick.updates[i].busId # lastTick.failed
          => Stored(lastTick.stored, lastTick.updates[i])

\* C18: a broadcast event reaches each subscriber at most once, reaches
\* every subscriber that was registered with an open transport when it was
\* broadcast, and never reaches a subscriber that connected after it.
C18_AtMostOnceToThoseConnected ==
    /\ \A c \in Sockets :
          /\ \A i, j \in DOMAIN inbox[c] : i # j => inbox[c][i] # inbox[c][j]
          /\ \A i \in DOMAIN inbox[c] : inbox[c][i] > joinedAt[c]
    /\ \A e \in DOMAIN broadcasts :
          \A c \in audience[e] : e \in Range(inbox[c])

\* C18 witness: the first socket received two events, the second socket
\* connected between them and received only the later one
C18_LateSubscriberMissesEarlierEvent ==
    /\ Len(broadcasts) = 2
    /\ inbox[1] = <<1, 2>>
    /\ joinedAt[2] = 1
    /\ inbox[2] = <<2>>

\* C19: after broadcast returns, no subscriber whose transport was not
\* open during the broadcast is still in the registered set.
C19_BroadcastPrunesNotOpen ==
    [][Len(broadcasts') > Len(broadcasts)
         => \A c \in clients' : readyState[c] = "OPEN"]_vars

\* C20: if sending to one subscriber fails during a broadcast, every other
\* registered open subscriber still receives the event, the failing one is
\* dropped from the set, and the failure does not reach broadcast's caller
\* (the request whose booking was stored is answered with the booking).
C20_SendFailureIsolated ==
    /\ \A e \in DOMAIN broadcasts :
          LET missed == {c \in audience[e] : e \notin Range(inbox[c])} IN
             /\ Cardinality(missed) <= 1
             /\ missed \cap clients = {}
    /\ \A r \in Answered : req[r].bookingId # 0 => req[r].response = "ok"

====
